---- MODULE Spec2Model ----
(***************************************************************************)
(* The stock allocation kernel of architecture_patterns_with_python/       *)
(* 1_domain_modeling/model.py: OrderLine, Batch and allocate(line,         *)
(* batches), as a state machine over a fixed set of Batch objects.         *)
(***************************************************************************)
EXTENDS Integers, Sequences, FiniteSets, TLC

\* ------------------------------------------------------------------ bounds
MaxPurchased == 3        \* Batch(ref, sku, qty, eta) is constructed with qty in 0..MaxPurchased

Refs == {"b1", "b2"}     \* the Batch objects of a run, named by their reference
Skus == {"s1", "s2"}
OrderIds == {"o1"}
Qtys == {1, 2}           \* the positive quantities an OrderLine asks for

\* Optional[date]: <<>> is None, <<d>> is the date of day d.
None == <<>>
Etas == {None, <<1>>, <<2>>}

\* model.py OrderLine: a frozen dataclass, equal by value.
OrderLine == [orderid : OrderIds, sku : Skus, qty : Qtys]

NoLine == [orderid |-> "", sku |-> "", qty |-> 0]

VARIABLES
  batches,   \* reference -> the Batch object's fields
  last,      \* the last call: what was called, on what, the state before, the outcome
  stage,     \* which stage of the walkthrough runs
  products,  \* stage 8: the Product objects the session holds, in the order added
  seen,      \* stage 8: AbstractRepository.seen
  svc,       \* the last service-layer call and its outcome
  callers,   \* concurrent callers of the aggregate: position, snapshot, outcome
  cmp,       \* the Batch objects handed to the comparison, and its results
  prime,     \* the multiprocessing prime checker: queues, main, workers, report
  aio,       \* the asyncio supervisor: event loop, supervisor and spinner tasks
  sync,      \* the directory sync: source and destination maps, pending actions
  obs        \* the observer demo: the buttons and the subject's observers

vars == <<batches, last, stage, products, seen, svc, callers, cmp, prime, aio, sync, obs>>

\* What a run of the kernel alone leaves untouched.
\* The walkthroughs outside the allocation example.
otherVars == <<prime, aio, sync, obs>>

OthersIdle ==
  /\ prime = <<>>
  /\ aio = <<>>
  /\ sync = <<>>
  /\ obs = <<>>

serviceVars == <<stage, products, seen, svc, callers, cmp, prime, aio, sync, obs>>

NoCall == [op |-> "init"]

\* The variables of the service layer, the callers and the comparison when
\* only the kernel runs.
KernelOnly ==
  /\ stage = "1_domain_modeling"
  /\ products = <<>>
  /\ seen = {}
  /\ svc = NoCall
  /\ callers = <<>>
  /\ cmp = <<>>
  /\ OthersIdle

\* ------------------------------------------------------------------ Batch
\* Batch.__init__
Batch(ref, sku, qty, eta) ==
  [reference |-> ref, sku |-> sku, eta |-> eta,
   purchased_quantity |-> qty, allocations |-> {}]

RECURSIVE SumQty(_)
SumQty(S) ==
  IF S = {} THEN 0
  ELSE LET l == CHOOSE x \in S : TRUE IN l.qty + SumQty(S \ {l})

\* Batch.allocated_quantity
allocated_quantity(b) == SumQty(b.allocations)

\* Batch.available_quantity
available_quantity(b) == b.purchased_quantity - allocated_quantity(b)

\* Batch.can_allocate that forgets the quantity test.
can_allocate_sku_only(b, line) == b.sku = line.sku

\* Batch.can_allocate with a strict comparison.
can_allocate_strict(b, line) ==
  b.sku = line.sku /\ b.purchased_quantity - SumQty(b.allocations) > line.qty

\* Batch.can_allocate that forgets the SKU test.
can_allocate_any_sku(b, line) == available_quantity(b) >= line.qty

\* Batch.can_allocate
can_allocate(b, line) ==
  b.sku = line.sku /\ available_quantity(b) >= line.qty

\* Batch.allocate without the can_allocate guard.
Batch_allocate_unguarded(b, line) ==
  [b EXCEPT !.allocations = @ \cup {line}]

\* Batch.allocate that also takes the quantity off the stock, as the first
\* Batch of the walkthrough does (available_quantity -= line.qty).
Batch_allocate_decrement(b, line) ==
  IF can_allocate(b, line)
  THEN [b EXCEPT !.allocations = @ \cup {line},
                 !.purchased_quantity = @ - line.qty]
  ELSE b

\* Batch.allocate
Batch_allocate(b, line) ==
  IF can_allocate(b, line)
  THEN [b EXCEPT !.allocations = @ \cup {line}]
  ELSE b

\* Batch.deallocate that empties the allocation set.
Batch_deallocate_clear(b, line) ==
  IF line \in b.allocations
  THEN [b EXCEPT !.allocations = {}]
  ELSE b

\* Batch.deallocate that leaves the line in the set.
Batch_deallocate_noop(b, line) == b

\* Batch.deallocate that gives the quantity back by growing the stock.
Batch_deallocate_restock(b, line) ==
  IF line \in b.allocations
  THEN [b EXCEPT !.allocations = @ \ {line},
                 !.purchased_quantity = @ + line.qty]
  ELSE b

\* Batch.deallocate
Batch_deallocate(b, line) ==
  IF line \in b.allocations
  THEN [b EXCEPT !.allocations = @ \ {line}]
  ELSE b

\* Batch.__gt__ with the date comparison the wrong way round.
Batch_gt_reversed(self, other) ==
  IF self.eta = None THEN FALSE
  ELSE IF other.eta = None THEN TRUE
  ELSE self.eta[1] < other.eta[1]

\* Batch.__gt__ with its two None tests in the other order.
Batch_gt_other_first(self, other) ==
  IF other.eta = None THEN TRUE
  ELSE IF self.eta = None THEN FALSE
  ELSE self.eta[1] > other.eta[1]

\* Batch.__gt__ comparing the dates with >=.
Batch_gt_or_equal(self, other) ==
  IF self.eta = None THEN FALSE
  ELSE IF other.eta = None THEN TRUE
  ELSE self.eta[1] >= other.eta[1]

\* Batch.__gt__
Batch_gt(self, other) ==
  IF self.eta = None THEN FALSE
  ELSE IF other.eta = None THEN TRUE
  ELSE self.eta[1] > other.eta[1]

\* a < b on Batch objects: Batch defines no __lt__, so Python evaluates the
\* reflected b.__gt__(a).
Batch_lt(a, b) == Batch_gt(b, a)

\* ------------------------------------------------------------------ sorted
\* list.sort on a short list is a stable insertion sort that compares with <
\* only: each element goes after every earlier element that is not greater.
InsertSorted(x, s, bs) ==
  LET k == CHOOSE i \in 1..(Len(s) + 1) :
             /\ (i = Len(s) + 1 \/ Batch_lt(bs[x], bs[s[i]]))
             /\ \A j \in 1..(i - 1) : ~Batch_lt(bs[x], bs[s[j]])
  IN SubSeq(s, 1, k - 1) \o <<x>> \o SubSeq(s, k, Len(s))

\* sorted() left out: the candidates are scanned in input order.
sorted_input_order(s, bs) == s

RECURSIVE sorted(_, _)
sorted(s, bs) ==
  IF s = <<>> THEN <<>>
  ELSE InsertSorted(s[Len(s)], sorted(SubSeq(s, 1, Len(s) - 1), bs), bs)

\* ------------------------------------------------------------------ kernel
\* allocate that takes the first sorted batch without asking can_allocate.
allocate_unfiltered(line, cands, bs) ==
  LET srt == sorted(cands, bs)
  IN IF srt = <<>>
     THEN [batches |-> bs, raised |-> "OutOfStock", result |-> "None"]
     ELSE [batches |-> [bs EXCEPT ![srt[1]] = Batch_allocate(@, line)],
           raised |-> "",
           result |-> bs[srt[1]].reference]

\* allocate that returns the reference without calling batch.allocate(line).
allocate_no_add(line, cands, bs) ==
  LET srt == sorted(cands, bs)
      ok == {i \in 1..Len(srt) : can_allocate(bs[srt[i]], line)}
  IN IF ok = {}
     THEN [batches |-> bs, raised |-> "OutOfStock", result |-> "None"]
     ELSE [batches |-> bs,
           raised |-> "",
           result |-> bs[srt[CHOOSE m \in ok : \A n \in ok : m <= n]].reference]

\* allocate that allocates the line to every batch that can take it.
allocate_every_eligible(line, cands, bs) ==
  LET srt == sorted(cands, bs)
      ok == {i \in 1..Len(srt) : can_allocate(bs[srt[i]], line)}
  IN IF ok = {}
     THEN [batches |-> bs, raised |-> "OutOfStock", result |-> "None"]
     ELSE [batches |-> [r \in DOMAIN bs |->
                          IF \E i \in ok : srt[i] = r
                          THEN Batch_allocate(bs[r], line) ELSE bs[r]],
           raised |-> "",
           result |-> bs[srt[CHOOSE m \in ok : \A n \in ok : m <= n]].reference]

\* allocate(line, batches): the candidate list is a list of Batch objects,
\* here the sequence of their references; bs is the state of the objects.
allocate(line, cands, bs) ==
  LET srt == sorted(cands, bs)
      ok == {i \in 1..Len(srt) : can_allocate(bs[srt[i]], line)}
  IN IF ok = {}
     THEN [batches |-> bs, raised |-> "OutOfStock", result |-> "None"]
     ELSE LET i == CHOOSE m \in ok : \A n \in ok : m <= n
              r == srt[i]
          IN [batches |-> [bs EXCEPT ![r] = Batch_allocate(@, line)],
              raised |-> "",
              result |-> bs[r].reference]

\* The candidate lists a caller can pass: every list of distinct batches.
RECURSIVE Lists(_)
Lists(S) ==
  {<<>>} \cup UNION {{<<r>> \o t : t \in Lists(S \ {r})} : r \in S}

CandidateLists == Lists(Refs)

\* ------------------------------------------------------------------ state machine
Call(op, target, line, cands, truth, raised, result) ==
  [op |-> op, target |-> target, line |-> line, cands |-> cands,
   before |-> batches, truth |-> truth, raised |-> raised, result |-> result]

\* The batches of a run as their constructor leaves them. SKU names are
\* interchangeable, so the first batch's SKU is fixed and the second has either
\* the same SKU or another one.
Init ==
  /\ batches \in {bs \in [Refs -> [reference : Refs, sku : Skus, eta : Etas,
                                   purchased_quantity : 0..MaxPurchased,
                                   allocations : {{}}]] :
                    /\ \A r \in Refs : bs[r] = Batch(r, bs[r].sku,
                                                     bs[r].purchased_quantity, bs[r].eta)
                    /\ bs["b1"].sku = "s1"}
  /\ last = [op |-> "init", target |-> "", line |-> NoLine, cands |-> <<>>,
             before |-> batches, truth |-> FALSE, raised |-> "", result |-> "None"]
  /\ KernelOnly

\* batch.can_allocate(line)
CanAllocate(r, line) ==
  /\ last' = Call("can_allocate", r, line, <<>>, can_allocate(batches[r], line), "", "None")
  /\ UNCHANGED batches
  /\ UNCHANGED serviceVars

\* batch.allocate(line)
BatchAllocate(r, line) ==
  /\ batches' = [batches EXCEPT ![r] = Batch_allocate(@, line)]
  /\ last' = Call("Batch.allocate", r, line, <<>>, FALSE, "", "None")
  /\ UNCHANGED serviceVars

\* batch.deallocate(line)
BatchDeallocate(r, line) ==
  /\ batches' = [batches EXCEPT ![r] = Batch_deallocate(@, line)]
  /\ last' = Call("Batch.deallocate", r, line, <<>>, FALSE, "", "None")
  /\ UNCHANGED serviceVars

\* allocate(line, batches)
KernelAllocate(line, cands) ==
  LET out == allocate(line, cands, batches)
  IN /\ batches' = out.batches
     /\ last' = Call("allocate", "", line, cands, FALSE, out.raised, out.result)
     /\ UNCHANGED serviceVars

Next ==
  \/ \E r \in Refs, line \in OrderLine : CanAllocate(r, line)
  \/ \E r \in Refs, line \in OrderLine : BatchAllocate(r, line)
  \/ \E r \in Refs, line \in OrderLine : BatchDeallocate(r, line)
  \/ \E line \in OrderLine, cands \in CandidateLists : KernelAllocate(line, cands)

Spec == Init /\ [][Next]_vars

\* Runs that call only allocate(line, batches), over the same batches.
NextKernel ==
  \E line \in OrderLine, cands \in CandidateLists : KernelAllocate(line, cands)

SpecKernel == Init /\ [][NextKernel]_vars

\* Runs of Batch.allocate and Batch.deallocate that keep the call before the
\* last one too, in svc.
BatchAllocateAfter(r, line) ==
  /\ batches' = [batches EXCEPT ![r] = Batch_allocate(@, line)]
  /\ last' = Call("Batch.allocate", r, line, <<>>, FALSE, "", "None")
  /\ svc' = last
  /\ UNCHANGED <<stage, products, seen, callers, cmp, otherVars>>

BatchDeallocateAfter(r, line) ==
  /\ batches' = [batches EXCEPT ![r] = Batch_deallocate(@, line)]
  /\ last' = Call("Batch.deallocate", r, line, <<>>, FALSE, "", "None")
  /\ svc' = last
  /\ UNCHANGED <<stage, products, seen, callers, cmp, otherVars>>

NextTwoCalls ==
  \/ \E r \in Refs, line \in OrderLine : BatchAllocateAfter(r, line)
  \/ \E r \in Refs, line \in OrderLine : BatchDeallocateAfter(r, line)

\* The eta plays no part in Batch.allocate and Batch.deallocate.
InitTwoCalls == Init /\ \A r \in Refs : batches[r].eta = None

SpecTwoCalls == InitTwoCalls /\ [][NextTwoCalls]_vars

\* OrderLine does not validate qty: lines of zero and negative quantity too.
AnyQtys == {-1, 0, 1, 2}

AnyOrderLine == [orderid : OrderIds, sku : Skus, qty : AnyQtys]

\* Runs of Batch.allocate and Batch.deallocate with lines of any quantity.
NextAnyQty ==
  \/ \E r \in Refs, line \in AnyOrderLine : BatchAllocate(r, line)
  \/ \E r \in Refs, line \in AnyOrderLine : BatchDeallocate(r, line)

\* eta plays no part in Batch.allocate and Batch.deallocate: the batches of
\* these runs are all in stock.
InitAnyQty == Init /\ \A r \in Refs : batches[r].eta = None

SpecAnyQty == InitAnyQty /\ [][NextAnyQty]_vars

\* ------------------------------------------------------------------ comparison
\* The kernel's variables when no kernel call is made.
KernelIdle ==
  /\ batches = [r \in Refs |-> Batch(r, "s1", 0, None)]
  /\ last = [op |-> "init", target |-> "", line |-> NoLine, cands |-> <<>>,
             before |-> batches, truth |-> FALSE, raised |-> "", result |-> "None"]

\* Batch.__gt__ reads eta alone: three batches with any etas.
CmpEtas == Etas \cup {<<3>>}

CmpRefs == <<"x1", "x2", "x3">>

InitGt ==
  /\ KernelIdle
  /\ stage = "1_domain_modeling"
  /\ products = <<>>
  /\ seen = {}
  /\ svc = NoCall
  /\ callers = <<>>
  /\ OthersIdle
  /\ \E e1 \in CmpEtas, e2 \in CmpEtas, e3 \in CmpEtas :
       cmp = [xs |-> <<Batch(CmpRefs[1], "s1", 0, e1),
                       Batch(CmpRefs[2], "s1", 0, e2),
                       Batch(CmpRefs[3], "s1", 0, e3)>>,
              gt |-> <<>>]

\* x > y for every pair of the three batches, x itself included.
CompareAll ==
  /\ cmp.gt = <<>>
  /\ cmp' = [cmp EXCEPT !.gt = [p \in (1..3) \X (1..3) |->
                                  Batch_gt(cmp.xs[p[1]], cmp.xs[p[2]])]]
  /\ UNCHANGED <<batches, last, stage, products, seen, svc, callers, otherVars>>

NextGt == CompareAll

SpecGt == InitGt /\ [][NextGt]_vars

\* ------------------------------------------------------------------ service layer
MaxVersion == 2          \* allocate is not called on a Product past this version_number

Stage4 == "4_service_layer"
Stage8 == "8_events_and_the_message_bus"

\* repo.list(): session.query(model.Batch).all() gives every batch, in an
\* order the query does not fix.
repo_list == {l \in CandidateLists : Len(l) = Cardinality(Refs)}

\* is_valid_sku that accepts every SKU.
is_valid_sku_always(sku, bl, bs) == TRUE

\* 4_service_layer is_valid_sku(sku, batches)
is_valid_sku(sku, bl, bs) == sku \in {bs[bl[i]].sku : i \in DOMAIN bl}

\* 4_service_layer allocate that commits before the domain call.
services4_allocate_commit_first(line, bl, bs) ==
  IF ~is_valid_sku(line.sku, bl, bs)
  THEN [batches |-> bs, raised |-> "InvalidSku", result |-> "None",
        trace |-> <<"repo.list">>]
  ELSE LET out == allocate(line, bl, bs)
       IN [batches |-> out.batches, raised |-> out.raised, result |-> out.result,
           trace |-> <<"repo.list", "session.commit", "model.allocate">>]

\* 4_service_layer allocate(line, repo, session); bl is what repo.list() gave.
services4_allocate(line, bl, bs) ==
  IF ~is_valid_sku(line.sku, bl, bs)
  THEN [batches |-> bs, raised |-> "InvalidSku", result |-> "None",
        trace |-> <<"repo.list">>]
  ELSE LET out == allocate(line, bl, bs)
       IN IF out.raised # ""
          THEN [batches |-> out.batches, raised |-> out.raised, result |-> "None",
                trace |-> <<"repo.list", "model.allocate">>]
          ELSE [batches |-> out.batches, raised |-> "", result |-> out.result,
                trace |-> <<"repo.list", "model.allocate", "session.commit">>]

\* model.Product(sku, batches): version_number starts at 0.
Product(sku, bs) == [sku |-> sku, batches |-> bs, version_number |-> 0]

\* Product.allocate that leaves version_number alone.
Product_allocate_no_bump(p, line) ==
  LET out == allocate(line, [i \in DOMAIN p.batches |-> i], p.batches)
  IN [product |-> [p EXCEPT !.batches = out.batches],
      raised |-> out.raised, result |-> out.result]

\* Product.allocate(line): the kernel's algorithm over self.batches; a
\* successful allocation increments version_number.
Product_allocate(p, line) ==
  LET out == allocate(line, [i \in DOMAIN p.batches |-> i], p.batches)
  IN IF out.raised # ""
     THEN [product |-> p, raised |-> out.raised, result |-> "None"]
     ELSE [product |-> [p EXCEPT !.batches = out.batches,
                                 !.version_number = @ + 1],
           raised |-> "", result |-> out.result]

\* SqlAlchemyRepository._get without the filter on sku.
repo_get_unfiltered(sku, ps) == IF ps = <<>> THEN 0 ELSE 1

\* SqlAlchemyRepository._get(sku): query(Product).filter_by(sku=sku).first(),
\* as the position of the product in the session, 0 for None.
repo_get(sku, ps) ==
  LET hits == {i \in DOMAIN ps : ps[i].sku = sku}
  IN IF hits = {} THEN 0 ELSE CHOOSE i \in hits : \A j \in hits : i <= j

\* The references of the batches the products hold.
UsedRefs ==
  UNION {{products[i].batches[k].reference : k \in DOMAIN products[i].batches} :
           i \in DOMAIN products}

ServiceCall(op, line, batch, raised, result, trace) ==
  [op |-> op, line |-> line, batch |-> batch, raised |-> raised, result |-> result,
   trace |-> trace, batches |-> batches, products |-> products, seen |-> seen]

\* 8_events_and_the_message_bus allocate(orderid, sku, qty, uow), with
\* line = OrderLine(orderid, sku, qty).
services8_allocate(line, ps) ==
  LET i == repo_get(line.sku, ps)
  IN IF i = 0
     THEN [products |-> ps, got |-> 0, raised |-> "InvalidSku", result |-> "None",
           trace |-> <<"products.get">>]
     ELSE LET out == Product_allocate(ps[i], line)
          IN IF out.raised # ""
             THEN [products |-> ps, got |-> i, raised |-> out.raised, result |-> "None",
                   trace |-> <<"products.get", "product.allocate">>]
             ELSE [products |-> [ps EXCEPT ![i] = out.product], got |-> i,
                   raised |-> "", result |-> out.result,
                   trace |-> <<"products.get", "product.allocate", "uow.commit">>]

\* A run is of stage 4, over the batches repo.list() gives, or of stage 8,
\* which starts with no Product.
InitService ==
  /\ \/ /\ stage = Stage4
        /\ batches \in {bs \in [Refs -> [reference : Refs, sku : Skus, eta : Etas,
                                         purchased_quantity : 0..MaxPurchased,
                                         allocations : {{}}]] :
                          /\ \A r \in Refs : bs[r].reference = r
                          /\ bs["b1"].sku = "s1"}
     \/ /\ stage = Stage8
        /\ batches = [r \in Refs |-> Batch(r, "s1", 0, None)]
  /\ last = [op |-> "init", target |-> "", line |-> NoLine, cands |-> <<>>,
             before |-> batches, truth |-> FALSE, raised |-> "", result |-> "None"]
  /\ products = <<>>
  /\ seen = {}
  /\ svc = NoCall
  /\ callers = <<>>
  /\ cmp = <<>>
  /\ OthersIdle

\* 4_service_layer allocate(line, repo, session)
Service4Allocate(line) ==
  /\ stage = Stage4
  /\ \E bl \in repo_list :
       LET out == services4_allocate(line, bl, batches)
       IN /\ batches' = out.batches
          /\ svc' = ServiceCall("allocate", line, <<>>, out.raised, out.result, out.trace)
  /\ UNCHANGED <<last, stage, products, seen, callers, cmp, otherVars>>

\* 8_events_and_the_message_bus add_batch(ref, sku, qty, eta, uow)
Service8AddBatch(ref, sku, qty, eta) ==
  /\ stage = Stage8
  /\ ref \notin UsedRefs
  /\ LET i == repo_get(sku, products)
         ps == IF i = 0 THEN Append(products, Product(sku, <<>>)) ELSE products
         j == IF i = 0 THEN Len(ps) ELSE i
     IN /\ products' = [ps EXCEPT ![j].batches = Append(@, Batch(ref, sku, qty, eta))]
        /\ seen' = seen \cup {ps[j].sku}
        /\ svc' = ServiceCall("add_batch", NoLine, Batch(ref, sku, qty, eta), "", "None",
                              IF i = 0
                              THEN <<"products.get", "products.add", "uow.commit">>
                              ELSE <<"products.get", "uow.commit">>)
  /\ UNCHANGED <<batches, last, stage, callers, cmp, otherVars>>

\* 8_events_and_the_message_bus allocate(orderid, sku, qty, uow)
Service8Allocate(line) ==
  /\ stage = Stage8
  /\ \A i \in DOMAIN products : products[i].version_number < MaxVersion
  /\ LET out == services8_allocate(line, products)
     IN /\ products' = out.products
        /\ seen' = IF out.got = 0 THEN seen ELSE seen \cup {products[out.got].sku}
        /\ svc' = ServiceCall("allocate", line, <<>>, out.raised, out.result, out.trace)
  /\ UNCHANGED <<batches, last, stage, callers, cmp, otherVars>>

NextService ==
  \/ \E line \in OrderLine : Service4Allocate(line)
  \/ \E ref \in Refs, sku \in Skus, qty \in 0..MaxPurchased, eta \in Etas :
       Service8AddBatch(ref, sku, qty, eta)
  \/ \E line \in OrderLine : Service8Allocate(line)

SpecService == InitService /\ [][NextService]_vars

\* ------------------------------------------------------------------ repository
\* Runs of the stage-8 repository alone: add(product) and get(sku) on a
\* session that may hold products from earlier transactions. A Product object
\* is identified by its sku.
RepoSkus == Skus \cup {"s3"}

\* AbstractRepository.add(product)
repository_add(sku, ps, sn) ==
  [products |-> Append(ps, Product(sku, <<>>)), seen |-> sn \cup {sku}]

\* AbstractRepository.get without the test 'if product'.
repository_get_unconditional(sku, ps, sn) ==
  [product |-> repo_get(sku, ps), seen |-> sn \cup {sku}]

\* AbstractRepository.get(sku)
repository_get(sku, ps, sn) ==
  LET product == repo_get(sku, ps)
  IN [product |-> product,
      seen |-> IF product # 0 THEN sn \cup {ps[product].sku} ELSE sn]

RepoCall(op, sku, found, added, returned) ==
  [op |-> op, sku |-> sku, found |-> found, seen |-> seen,
   added |-> added, returned |-> returned]

InitRepo ==
  /\ KernelIdle
  /\ stage = Stage8
  /\ products \in {<<>>} \cup {<<Product(a, <<>>)>> : a \in RepoSkus}
                  \cup {ps \in {<<Product(a, <<>>), Product(b, <<>>)>> :
                                   a \in RepoSkus, b \in RepoSkus} :
                          ps[1].sku # ps[2].sku}
  /\ seen = {}
  /\ svc = [op |-> "init", sku |-> "", found |-> FALSE, seen |-> {},
            added |-> {}, returned |-> {}]
  /\ callers = <<>>
  /\ cmp = <<>>
  /\ OthersIdle

\* repo.add(Product(sku, ...)) for a sku the session does not hold yet.
RepoAdd(sku) ==
  /\ repo_get(sku, products) = 0
  /\ LET out == repository_add(sku, products, seen)
     IN /\ products' = out.products
        /\ seen' = out.seen
        /\ svc' = RepoCall("repository.add", sku, FALSE,
                           svc.added \cup {sku}, svc.returned)
  /\ UNCHANGED <<batches, last, stage, callers, cmp, otherVars>>

\* repo.get(sku)
RepoGet(sku) ==
  /\ LET out == repository_get(sku, products, seen)
     IN /\ seen' = out.seen
        /\ svc' = RepoCall("repository.get", sku, out.product # 0, svc.added,
                           IF out.product # 0
                           THEN svc.returned \cup {products[out.product].sku}
                           ELSE svc.returned)
  /\ UNCHANGED <<batches, last, stage, products, callers, cmp, otherVars>>

NextRepo ==
  \/ \E sku \in RepoSkus : RepoAdd(sku)
  \/ \E sku \in RepoSkus : RepoGet(sku)

SpecRepo == InitRepo /\ [][NextRepo]_vars

\* ------------------------------------------------------------------ optimistic concurrency
\* Two callers allocate against one Product of the store. Each loads a
\* snapshot, allocates its line against the snapshot and commits; the
\* persistence collaborator compares the version the caller read with the
\* version the store holds.
Callers == {"c1", "c2"}

CallerLines(c) == [orderid : {c}, sku : {"s1"}, qty : Qtys]

Idle == [pc |-> "idle", line |-> NoLine, read |-> 0, snapshot |-> <<>>, retried |-> FALSE]

\* A commit check that accepts every version.
version_matches_always(store, read) == TRUE

\* The persistence collaborator's check at commit time: the store still
\* holds the version the caller read.
version_matches(store, read) == store.version_number = read

\* The store after a caller's commit: the allocation rows of the snapshot
\* are written to the batches of the store, with the snapshot's version.
commit_snapshot(store, snap) ==
  [store EXCEPT !.version_number = snap.version_number,
                !.batches = [k \in DOMAIN store.batches |->
                               [store.batches[k] EXCEPT
                                  !.allocations = @ \cup snap.batches[k].allocations]]]

InitOCC ==
  /\ KernelIdle
  /\ stage = Stage8
  /\ \E q1 \in 0..MaxPurchased, q2 \in 0..MaxPurchased, e2 \in Etas :
       products = <<Product("s1", <<Batch("b1", "s1", q1, None),
                                    Batch("b2", "s1", q2, e2)>>)>>
  /\ seen = {}
  /\ svc = NoCall
  /\ callers = [c \in Callers |-> Idle]
  /\ cmp = <<>>
  /\ OthersIdle

\* The caller reads the Product from the store: products.get(sku).
CallerLoad(c) ==
  /\ callers[c].pc = "idle"
  /\ \E line \in CallerLines(c) :
       callers' = [callers EXCEPT ![c] = [pc |-> "loaded", line |-> line,
                                          read |-> products[1].version_number,
                                          snapshot |-> products[1],
                                          retried |-> FALSE]]
  /\ UNCHANGED <<batches, last, stage, products, seen, svc, cmp, otherVars>>

\* product.allocate(line) on the caller's snapshot.
CallerAllocate(c) ==
  /\ callers[c].pc = "loaded"
  /\ LET out == Product_allocate(callers[c].snapshot, callers[c].line)
     IN callers' = [callers EXCEPT
                      ![c].pc = IF out.raised # "" THEN "out_of_stock" ELSE "allocated",
                      ![c].snapshot = out.product]
  /\ UNCHANGED <<batches, last, stage, products, seen, svc, cmp, otherVars>>

\* uow.commit(): succeeds when the version read is still the store's,
\* fails the whole operation otherwise.
CallerCommit(c) ==
  /\ callers[c].pc = "allocated"
  /\ IF version_matches(products[1], callers[c].read)
     THEN /\ products' = <<commit_snapshot(products[1], callers[c].snapshot)>>
          /\ callers' = [callers EXCEPT ![c].pc = "committed"]
     ELSE /\ callers' = [callers EXCEPT ![c].pc = "conflict"]
          /\ UNCHANGED products
  /\ UNCHANGED <<batches, last, stage, seen, svc, cmp, otherVars>>

\* The failed caller retries against a fresh snapshot.
CallerRetry(c) ==
  /\ callers[c].pc = "conflict"
  /\ callers' = [callers EXCEPT ![c].pc = "loaded",
                                ![c].read = products[1].version_number,
                                ![c].snapshot = products[1],
                                ![c].retried = TRUE]
  /\ UNCHANGED <<batches, last, stage, products, seen, svc, cmp, otherVars>>

CallerStep(c) ==
  \/ CallerLoad(c)
  \/ CallerAllocate(c)
  \/ CallerCommit(c)
  \/ CallerRetry(c)

NextOCC == \E c \in Callers : CallerStep(c)

SpecOCC == InitOCC /\ [][NextOCC]_vars

\* ------------------------------------------------------------------ prime checker
\* fluent_python/control_flow/19_concurrency_models.py, procs.py part: main
\* fills the job queue and starts the workers, each worker checks numbers
\* until it dequeues a 0, report reads the results. The elapsed time of a
\* result is left out.
NumJobs == 2             \* how many numbers NUMBERS holds
MaxProcs == 2            \* procs is 1..MaxProcs

allocVars == <<batches, last, stage, products, seen, svc, callers, cmp>>

\* The allocation example does not run.
AllocationIdle ==
  /\ KernelIdle
  /\ stage = "none"
  /\ products = <<>>
  /\ seen = {}
  /\ svc = NoCall
  /\ callers = <<>>
  /\ cmp = <<>>

\* NUMBERS: distinct numbers, none of them 0.
NUMBERS == [i \in 1..NumJobs |-> i + 1]

is_prime(n) ==
  IF n < 2 THEN FALSE
  ELSE IF n = 2 THEN TRUE
  ELSE IF n % 2 = 0 THEN FALSE
  ELSE \A i \in {j \in 3..n : j * j <= n /\ j % 2 = 1} : n % i # 0

PrimeResult(n, p) == [n |-> n, prime |-> p]

\* check(n)
check(n) == PrimeResult(n, is_prime(n))

\* A worker loop that does not test what it dequeued.
worker_continues_always(n) == TRUE

\* worker: 'while n := jobs.get()' goes on while n is not 0.
worker_continues(n) == n # 0

\* A report loop that stops at the first end marker.
report_continues_until_first(procs_done, procs) == procs_done < 1

\* report: 'while procs_done < procs'
report_continues(procs_done, procs) == procs_done < procs

Count(q, n) == Cardinality({j \in DOMAIN q : q[j] = n})

InitPrime ==
  /\ AllocationIdle
  /\ aio = <<>>
  /\ sync = <<>>
  /\ obs = <<>>
  /\ \E procs \in 1..MaxProcs :
       prime = [procs |-> procs, jobs |-> <<>>, results |-> <<>>,
                main |-> "put_jobs", i |-> 1, started |-> 0,
                worker |-> [w \in 1..procs |-> [pc |-> "unstarted", n |-> 0]],
                got |-> [w \in 1..procs |-> <<>>],
                checked |-> 0, procs_done |-> 0, read |-> <<>>]

\* start_jobs: for n in NUMBERS: jobs.put(n)
MainPutJob ==
  /\ prime.main = "put_jobs"
  /\ prime' = [prime EXCEPT !.jobs = Append(@, NUMBERS[prime.i]),
                            !.i = @ + 1,
                            !.main = IF prime.i < NumJobs THEN "put_jobs" ELSE "start"]
  /\ UNCHANGED <<allocVars, aio, sync, obs>>

\* start_jobs: proc = Process(target=worker, ...); proc.start()
MainStartProc ==
  /\ prime.main = "start"
  /\ prime' = [prime EXCEPT !.worker[prime.started + 1].pc = "get",
                            !.main = "put_sentinel"]
  /\ UNCHANGED <<allocVars, aio, sync, obs>>

\* start_jobs: jobs.put(0), then the next round of the loop or report.
MainPutSentinel ==
  /\ prime.main = "put_sentinel"
  /\ prime' = [prime EXCEPT !.jobs = Append(@, 0),
                            !.started = @ + 1,
                            !.main = IF prime.started + 1 < prime.procs
                                     THEN "start" ELSE "report"]
  /\ UNCHANGED <<allocVars, aio, sync, obs>>

\* worker: n := jobs.get(), which blocks while the queue is empty.
WorkerGet(w) ==
  /\ prime.worker[w].pc = "get"
  /\ prime.jobs # <<>>
  /\ LET n == Head(prime.jobs)
     IN prime' = [prime EXCEPT !.jobs = Tail(@),
                               !.got[w] = Append(@, n),
                               !.worker[w] = [pc |-> IF worker_continues(n)
                                                     THEN "check" ELSE "end",
                                              n |-> n]]
  /\ UNCHANGED <<allocVars, aio, sync, obs>>

\* worker: results.put(check(n))
WorkerPutResult(w) ==
  /\ prime.worker[w].pc = "check"
  /\ prime' = [prime EXCEPT !.results = Append(@, check(prime.worker[w].n)),
                            !.worker[w].pc = "get"]
  /\ UNCHANGED <<allocVars, aio, sync, obs>>

\* worker: results.put(PrimeResult(0, False, 0.0)) and the process ends.
WorkerPutEnd(w) ==
  /\ prime.worker[w].pc = "end"
  /\ prime' = [prime EXCEPT !.results = Append(@, PrimeResult(0, FALSE)),
                            !.worker[w].pc = "done"]
  /\ UNCHANGED <<allocVars, aio, sync, obs>>

\* report: one round of the loop, results.get() blocks while the queue is empty.
ReportGet ==
  /\ prime.main = "report"
  /\ report_continues(prime.procs_done, prime.procs)
  /\ prime.results # <<>>
  /\ LET r == Head(prime.results)
     IN prime' = [prime EXCEPT !.results = Tail(@),
                               !.procs_done = IF r.n = 0 THEN @ + 1 ELSE @,
                               !.checked = IF r.n = 0 THEN @ ELSE @ + 1,
                               !.read = IF r.n = 0 THEN @ ELSE Append(@, r.n)]
  /\ UNCHANGED <<allocVars, aio, sync, obs>>

\* report: return checked
ReportReturn ==
  /\ prime.main = "report"
  /\ ~report_continues(prime.procs_done, prime.procs)
  /\ prime' = [prime EXCEPT !.main = "returned"]
  /\ UNCHANGED <<allocVars, aio, sync, obs>>

MainStep ==
  \/ MainPutJob
  \/ MainStartProc
  \/ MainPutSentinel
  \/ ReportGet
  \/ ReportReturn

WorkerStep(w) ==
  \/ WorkerGet(w)
  \/ WorkerPutResult(w)
  \/ WorkerPutEnd(w)

NextPrime ==
  \/ MainPutJob
  \/ MainStartProc
  \/ MainPutSentinel
  \/ ReportGet
  \/ ReportReturn
  \/ \E w \in DOMAIN prime.worker : WorkerGet(w)
  \/ \E w \in DOMAIN prime.worker : WorkerPutResult(w)
  \/ \E w \in DOMAIN prime.worker : WorkerPutEnd(w)

SpecPrime == InitPrime /\ [][NextPrime]_vars

\* Every process gets the processor again and again: the main process and
\* each worker take a step they can take.
SpecPrimeFair ==
  /\ SpecPrime
  /\ WF_vars(MainStep)
  /\ \A w \in 1..MaxProcs : WF_vars(w \in DOMAIN prime.worker /\ WorkerStep(w))

\* ------------------------------------------------------------------ directory sync
\* _3_coupling_and_abstractions.py: sync reads the two folders into maps from
\* content hash to file name, determine_actions yields the actions, and sync
\* applies them to the destination folder in the order yielded. A folder is a
\* function from file name to content hash.
Hashes == {"hash1", "hash2"}
Names == {"fn1", "fn2", "fn3"}

\* The maps read_paths_and_hashes can give for a flat folder: each content
\* under one name, each name for one content.
HashMaps ==
  {m \in UNION {[D -> Names] : D \in SUBSET Hashes} :
     \A g \in DOMAIN m, h \in DOMAIN m : g # h => m[g] # m[h]}

\* The folder a map was read from.
Folder(m) ==
  [n \in {m[h] : h \in DOMAIN m} |-> CHOOSE h \in DOMAIN m : m[h] = n]

\* dict.items() gives the entries in insertion order, which is the order
\* os.walk met the files in: any order of the keys.
Items(m) == {l \in Lists(DOMAIN m) : Len(l) = Cardinality(DOMAIN m)}

\* determine_actions, first loop: COPY what the destination lacks, MOVE what
\* it holds under another name.
RECURSIVE source_actions(_, _, _)
source_actions(order, source_hashes, dest_hashes) ==
  IF order = <<>> THEN <<>>
  ELSE LET sha == Head(order)
           filename == source_hashes[sha]
           rest == source_actions(Tail(order), source_hashes, dest_hashes)
       IN IF sha \notin DOMAIN dest_hashes
          THEN <<[action |-> "COPY", sha |-> sha, from |-> filename, to |-> filename]>>
               \o rest
          ELSE IF dest_hashes[sha] # filename
          THEN <<[action |-> "MOVE", sha |-> sha, from |-> dest_hashes[sha],
                  to |-> filename]>> \o rest
          ELSE rest

\* determine_actions, second loop: DELETE what the source lacks.
RECURSIVE dest_actions(_, _, _)
dest_actions(order, source_hashes, dest_hashes) ==
  IF order = <<>> THEN <<>>
  ELSE LET sha == Head(order)
           rest == dest_actions(Tail(order), source_hashes, dest_hashes)
       IN IF sha \notin DOMAIN source_hashes
          THEN <<[action |-> "DELETE", sha |-> sha, from |-> dest_hashes[sha],
                  to |-> dest_hashes[sha]]>> \o rest
          ELSE rest

determine_actions(source_hashes, dest_hashes, sorder, dorder) ==
  source_actions(sorder, source_hashes, dest_hashes)
    \o dest_actions(dorder, source_hashes, dest_hashes)

\* The folder without the file of that name.
Remove(folder, name) == [n \in DOMAIN folder \ {name} |-> folder[n]]

\* The folder with that content under that name, replacing what was there.
Put(folder, name, sha) ==
  [n \in DOMAIN folder \cup {name} |-> IF n = name THEN sha ELSE folder[n]]

InitSync ==
  /\ AllocationIdle
  /\ prime = <<>>
  /\ aio = <<>>
  /\ obs = <<>>
  /\ \E source_hashes \in HashMaps, dest_hashes \in HashMaps :
       sync = [pc |-> "read", source_hashes |-> source_hashes,
               dest_hashes |-> dest_hashes, dest |-> Folder(dest_hashes),
               actions |-> <<>>, raised |-> FALSE]

\* sync: actions = determine_actions(source_hashes, dest_hashes, source, dest)
SyncDetermineActions ==
  /\ sync.pc = "read"
  /\ \E sorder \in Items(sync.source_hashes), dorder \in Items(sync.dest_hashes) :
       sync' = [sync EXCEPT !.pc = "apply",
                            !.actions = determine_actions(sync.source_hashes,
                                                          sync.dest_hashes,
                                                          sorder, dorder)]
  /\ UNCHANGED <<allocVars, prime, aio, obs>>

\* sync: shutil.copyfile(sourcepath, destpath)
SyncCopy ==
  /\ sync.pc = "apply"
  /\ sync.actions # <<>>
  /\ Head(sync.actions).action = "COPY"
  /\ sync' = [sync EXCEPT !.actions = Tail(@),
                          !.dest = Put(@, Head(sync.actions).to, Head(sync.actions).sha)]
  /\ UNCHANGED <<allocVars, prime, aio, obs>>

\* sync: shutil.move(olddestpath, newdestpath); a missing file raises.
SyncMove ==
  /\ sync.pc = "apply"
  /\ sync.actions # <<>>
  /\ Head(sync.actions).action = "MOVE"
  /\ LET a == Head(sync.actions)
     IN IF a.from \in DOMAIN sync.dest
        THEN sync' = [sync EXCEPT !.actions = Tail(@),
                                  !.dest = Put(Remove(@, a.from), a.to, sync.dest[a.from])]
        ELSE sync' = [sync EXCEPT !.pc = "done", !.raised = TRUE]
  /\ UNCHANGED <<allocVars, prime, aio, obs>>

\* sync: os.remove(paths[0]); a missing file raises.
SyncDelete ==
  /\ sync.pc = "apply"
  /\ sync.actions # <<>>
  /\ Head(sync.actions).action = "DELETE"
  /\ LET a == Head(sync.actions)
     IN IF a.from \in DOMAIN sync.dest
        THEN sync' = [sync EXCEPT !.actions = Tail(@), !.dest = Remove(@, a.from)]
        ELSE sync' = [sync EXCEPT !.pc = "done", !.raised = TRUE]
  /\ UNCHANGED <<allocVars, prime, aio, obs>>

\* sync: the actions are exhausted and sync returns.
SyncReturn ==
  /\ sync.pc = "apply"
  /\ sync.actions = <<>>
  /\ sync' = [sync EXCEPT !.pc = "done"]
  /\ UNCHANGED <<allocVars, prime, aio, obs>>

NextSync ==
  \/ SyncDetermineActions
  \/ SyncCopy
  \/ SyncMove
  \/ SyncDelete
  \/ SyncReturn

SpecSync == InitSync /\ [][NextSync]_vars

\* ------------------------------------------------------------------ observer
\* extras/design_patterns/behavioral/observer.py: buttons attached to
\* ButtonSubject; a click toggles the button and notifies the others.
Buttons == {"button1", "button2", "button3"}

\* Button.update
Button_update(disabled, b) == [disabled EXCEPT ![b] = FALSE]

\* ButtonSubject.notify with break in the place of continue.
RECURSIVE notify_stops_at_modifier(_, _, _)
notify_stops_at_modifier(observers, modifier, disabled) ==
  IF observers = <<>> THEN disabled
  ELSE IF Head(observers) = modifier THEN disabled
  ELSE notify_stops_at_modifier(Tail(observers), modifier,
                                Button_update(disabled, Head(observers)))

\* ButtonSubject.notify(modifier)
RECURSIVE notify(_, _, _)
notify(observers, modifier, disabled) ==
  IF observers = <<>> THEN disabled
  ELSE IF Head(observers) = modifier
  THEN notify(Tail(observers), modifier, disabled)
  ELSE notify(Tail(observers), modifier, Button_update(disabled, Head(observers)))

\* Button.click
Button_click(observers, b, disabled) ==
  notify(observers, b, [disabled EXCEPT ![b] = ~@])

Attached == {obs.observers[i] : i \in DOMAIN obs.observers}

\* Button.__init__ for each button, ButtonSubject._observers = [].
InitObserver ==
  /\ AllocationIdle
  /\ prime = <<>>
  /\ aio = <<>>
  /\ sync = <<>>
  /\ obs = [observers |-> <<>>, disabled |-> [b \in Buttons |-> FALSE],
            click |-> [button |-> "", all |-> FALSE,
                       before |-> [b \in Buttons |-> FALSE]]]

\* subject.attach(btn), for a button that is not attached.
Attach(b) ==
  /\ b \notin Attached
  /\ obs' = [obs EXCEPT !.observers = Append(@, b)]
  /\ UNCHANGED <<allocVars, prime, aio, sync>>

\* subject.detach(btn): list.remove of an attached button.
Detach(b) ==
  /\ b \in Attached
  /\ obs' = [obs EXCEPT !.observers = SelectSeq(@, LAMBDA x : x # b)]
  /\ UNCHANGED <<allocVars, prime, aio, sync>>

\* btn.click()
Click(b) ==
  /\ obs' = [obs EXCEPT !.disabled = Button_click(obs.observers, b, @),
                        !.click = [button |-> b, all |-> Attached = Buttons,
                                   before |-> obs.disabled]]
  /\ UNCHANGED <<allocVars, prime, aio, sync>>

NextObserver ==
  \/ \E b \in Buttons : Attach(b)
  \/ \E b \in Buttons : Detach(b)
  \/ \E b \in Buttons : Click(b)

SpecObserver == InitObserver /\ [][NextObserver]_vars

\* ------------------------------------------------------------------ asyncio supervisor
\* fluent_python/control_flow/19_concurrency_models.py, the two asyncio
\* supervisors: slow() awaits asyncio.sleep(3) in the first and runs the
\* blocking is_prime in the second. The event loop runs one task at a time,
\* from its ready queue, until the task suspends or ends. Time is counted in
\* units of the spinner's sleep.
MaxSlow == 4             \* slow() takes 1..MaxSlow units

\* Whether slow() has a suspension point: as if every slow() awaited a sleep.
slow_suspends_always(variant) == TRUE

\* Whether slow() has a suspension point: await asyncio.sleep(3) in the first
\* variant, none in the second.
slow_suspends(variant) == variant = "sleep"

InitAsyncio ==
  /\ AllocationIdle
  /\ prime = <<>>
  /\ sync = <<>>
  /\ obs = <<>>
  /\ \E variant \in {"sleep", "blocking"}, slow \in 1..MaxSlow :
       aio = [variant |-> variant, slow |-> slow, clock |-> 0,
              running |-> "none", ready |-> <<"supervisor">>, timers |-> {},
              supervisor |-> "create_task", spin |-> "unstarted",
              must_cancel |-> FALSE, iterations |-> 0, left |-> 0,
              result |-> 0, cancelled_at |-> -1]

InReady(t) == \E i \in DOMAIN aio.ready : aio.ready[i] = t

\* The loop takes the next task from its ready queue.
LoopRunTask ==
  /\ aio.running = "none"
  /\ aio.ready # <<>>
  /\ aio' = [aio EXCEPT !.running = Head(aio.ready), !.ready = Tail(@)]
  /\ UNCHANGED <<allocVars, prime, sync, obs>>

\* Nothing is ready: the loop waits for the earliest sleep to end and makes
\* the tasks whose sleep ended ready.
LoopWait ==
  /\ aio.running = "none"
  /\ aio.ready = <<>>
  /\ aio.timers # {}
  /\ LET due == CHOOSE d \in {t.due : t \in aio.timers} :
                  \A t \in aio.timers : d <= t.due
         woken == {t.task : t \in {x \in aio.timers : x.due = due}}
     IN \E order \in {l \in Lists(woken) : Len(l) = Cardinality(woken)} :
          aio' = [aio EXCEPT !.clock = due,
                             !.ready = order,
                             !.timers = {t \in @ : t.due # due}]
  /\ UNCHANGED <<allocVars, prime, sync, obs>>

\* supervisor: spinner = asyncio.create_task(spin("Thinking!"))
SupervisorCreateTask ==
  /\ aio.running = "supervisor"
  /\ aio.supervisor = "create_task"
  /\ aio' = [aio EXCEPT !.ready = Append(@, "spin"), !.supervisor = "await_slow"]
  /\ UNCHANGED <<allocVars, prime, sync, obs>>

\* supervisor: result = await slow(): slow() runs inside the supervisor task,
\* to its sleep in the first variant, into is_prime in the second.
SupervisorAwaitSlow ==
  /\ aio.running = "supervisor"
  /\ aio.supervisor = "await_slow"
  /\ IF slow_suspends(aio.variant)
     THEN aio' = [aio EXCEPT !.supervisor = "in_sleep",
                             !.running = "none",
                             !.timers = @ \cup {[task |-> "supervisor",
                                                 due |-> aio.clock + aio.slow]}]
     ELSE aio' = [aio EXCEPT !.supervisor = "is_prime", !.left = aio.slow]
  /\ UNCHANGED <<allocVars, prime, sync, obs>>

\* slow: is_prime computes; the thread of the loop is busy and time passes.
IsPrimeComputes ==
  /\ aio.running = "supervisor"
  /\ aio.supervisor = "is_prime"
  /\ aio.left > 0
  /\ aio' = [aio EXCEPT !.left = @ - 1, !.clock = @ + 1]
  /\ UNCHANGED <<allocVars, prime, sync, obs>>

\* slow: return 42, after is_prime or after the sleep.
SlowReturns ==
  /\ aio.running = "supervisor"
  /\ \/ aio.supervisor = "is_prime" /\ aio.left = 0
     \/ aio.supervisor = "in_sleep"
  /\ aio' = [aio EXCEPT !.supervisor = "cancel", !.result = 42]
  /\ UNCHANGED <<allocVars, prime, sync, obs>>

\* supervisor: spinner.cancel(): a task that is not done gets CancelledError
\* thrown in when it runs next; its sleep, if it is in one, is cancelled.
SupervisorCancel ==
  /\ aio.running = "supervisor"
  /\ aio.supervisor = "cancel"
  /\ aio' = [aio EXCEPT !.supervisor = "return",
                        !.cancelled_at = aio.iterations,
                        !.must_cancel = aio.spin \notin {"done", "cancelled"},
                        !.timers = {t \in @ : t.task # "spin"},
                        !.ready = IF aio.spin = "sleeping" /\ ~InReady("spin")
                                  THEN Append(@, "spin") ELSE @]
  /\ UNCHANGED <<allocVars, prime, sync, obs>>

\* supervisor: return result
SupervisorReturn ==
  /\ aio.running = "supervisor"
  /\ aio.supervisor = "return"
  /\ aio' = [aio EXCEPT !.supervisor = "done", !.running = "none"]
  /\ UNCHANGED <<allocVars, prime, sync, obs>>

\* The spinner's first turn with a cancellation pending: CancelledError is
\* thrown into the coroutine before its first statement, and the task ends.
SpinCancelledUnstarted ==
  /\ aio.running = "spin"
  /\ aio.spin = "unstarted"
  /\ aio.must_cancel
  /\ aio' = [aio EXCEPT !.spin = "cancelled", !.running = "none",
                        !.must_cancel = FALSE]
  /\ UNCHANGED <<allocVars, prime, sync, obs>>

\* spin: one iteration of the loop: print(status), await asyncio.sleep(.1)
SpinIteration ==
  /\ aio.running = "spin"
  /\ ~aio.must_cancel
  /\ aio.spin \in {"unstarted", "sleeping"}
  /\ aio' = [aio EXCEPT !.spin = "sleeping", !.running = "none",
                        !.iterations = @ + 1,
                        !.timers = @ \cup {[task |-> "spin", due |-> aio.clock + 1]}]
  /\ UNCHANGED <<allocVars, prime, sync, obs>>

\* spin: except asyncio.CancelledError: break, and the blanks are printed.
SpinCaughtCancel ==
  /\ aio.running = "spin"
  /\ aio.spin = "sleeping"
  /\ aio.must_cancel
  /\ aio' = [aio EXCEPT !.spin = "done", !.running = "none", !.must_cancel = FALSE]
  /\ UNCHANGED <<allocVars, prime, sync, obs>>

NextAsyncio ==
  \/ LoopRunTask
  \/ LoopWait
  \/ SupervisorCreateTask
  \/ SupervisorAwaitSlow
  \/ IsPrimeComputes
  \/ SlowReturns
  \/ SupervisorCancel
  \/ SupervisorReturn
  \/ SpinCancelledUnstarted
  \/ SpinIteration
  \/ SpinCaughtCancel

SpecAsyncio == InitAsyncio /\ [][NextAsyncio]_vars

\* ------------------------------------------------------------------ claims
\* The batches in the candidate list of the last call.
Cands == {last.cands[i] : i \in DOMAIN last.cands}

\* The position in the order 'eta None first, then ascending eta'.
Rank(b) == IF b.eta = None THEN 0 ELSE b.eta[1]

\* C1: in every reachable state every batch has available_quantity >= 0:
\* purchased_quantity minus the sum of qty over its allocation set.
C1_AvailableNonNegative ==
  \A r \in Refs : batches[r].purchased_quantity - SumQty(batches[r].allocations) >= 0

\* A batch filled to the last unit by two lines, the second through the kernel.
C1_Witness ==
  /\ last.op = "allocate"
  /\ last.raised = ""
  /\ \E r \in Refs :
       /\ last.result = batches[r].reference
       /\ Cardinality(batches[r].allocations) = 2
       /\ last.line \notin last.before[r].allocations
       /\ available_quantity(batches[r]) = 0

C3_EarlierEtaPreferred ==
  last.op = "allocate" =>
    \A D1 \in Cands, D2 \in Cands :
      ( /\ last.before[D1].eta # None
        /\ last.before[D2].eta # None
        /\ last.before[D1].eta[1] < last.before[D2].eta[1]
        /\ can_allocate(last.before[D1], last.line)
        /\ can_allocate(last.before[D2], last.line) )
      => /\ last.raised = ""
         /\ last.result # last.before[D2].reference
         /\ batches[D2].allocations = last.before[D2].allocations
         /\ (\A n \in Cands : last.before[n].eta = None
                               => ~can_allocate(last.before[n], last.line))
            => \E r \in Cands :
                 /\ last.result = last.before[r].reference
                 /\ last.before[r].eta # None
                 /\ can_allocate(last.before[r], last.line)
                 /\ last.line \in batches[r].allocations
                 /\ \A e \in Cands :
                      (last.before[e].eta # None /\ can_allocate(last.before[e], last.line))
                      => last.before[r].eta[1] <= last.before[e].eta[1]

\* The later batch comes first in the input list and the earlier one is chosen.
C3_Witness ==
  /\ last.op = "allocate"
  /\ Len(last.cands) = 2
  /\ last.before[last.cands[1]].eta # None
  /\ last.before[last.cands[2]].eta # None
  /\ last.before[last.cands[2]].eta[1] < last.before[last.cands[1]].eta[1]
  /\ can_allocate(last.before[last.cands[1]], last.line)
  /\ can_allocate(last.before[last.cands[2]], last.line)
  /\ last.result = last.before[last.cands[2]].reference
  /\ last.line \notin last.before[last.cands[2]].allocations
  /\ last.line \in batches[last.cands[2]].allocations

\* C4: when some candidate could take the line, allocate succeeds and returns
\* the reference of the first batch, in the order 'eta None first, then
\* ascending eta', that could take it before the call; afterwards that batch's
\* allocation set contains the line.
C4_FirstEligibleSelected ==
  (last.op = "allocate" /\ \E c \in Cands : can_allocate(last.before[c], last.line))
  => /\ last.raised = ""
     /\ \E r \in Cands :
          /\ last.result = last.before[r].reference
          /\ can_allocate(last.before[r], last.line)
          /\ last.line \in batches[r].allocations
          /\ \A e \in Cands :
               can_allocate(last.before[e], last.line)
               => Rank(last.before[r]) <= Rank(last.before[e])

\* An in-stock batch of the line's SKU cannot take the line, so the dated batch
\* after it in the order is the first that can, and is chosen.
C4_Witness ==
  /\ last.op = "allocate"
  /\ \E n \in Cands, d \in Cands :
       /\ last.before[n].eta = None
       /\ last.before[n].sku = last.line.sku
       /\ ~can_allocate(last.before[n], last.line)
       /\ last.before[d].eta # None
       /\ can_allocate(last.before[d], last.line)
       /\ last.result = last.before[d].reference
       /\ last.line \in batches[d].allocations

\* C5: when no candidate can take the line (each has another SKU or too little
\* available quantity), allocate ends with OutOfStock and every batch's
\* allocation set is as before the call.
C5_OutOfStockMutatesNothing ==
  ( /\ last.op = "allocate"
    /\ \A c \in Cands :
         \/ last.before[c].sku # last.line.sku
         \/ available_quantity(last.before[c]) < last.line.qty )
  => /\ last.raised = "OutOfStock"
     /\ \A r \in Refs : batches[r].allocations = last.before[r].allocations

\* A mixed list: one batch has another SKU and stock to spare, the other has
\* the line's SKU and too little left after an earlier allocation.
C5_Witness ==
  /\ last.op = "allocate"
  /\ last.raised = "OutOfStock"
  /\ \E a \in Cands, b \in Cands :
       /\ last.before[a].sku # last.line.sku
       /\ available_quantity(last.before[a]) >= last.line.qty
       /\ last.before[b].sku = last.line.sku
       /\ last.before[b].allocations # {}
       /\ available_quantity(last.before[b]) < last.line.qty

\* C6 as stated: every successful allocate changes the allocation set of
\* exactly one batch, the one whose reference is returned, in every reachable
\* state, also when the line was allocated by an earlier call.
C6_ExactlyOneChanged ==
  (last.op = "allocate" /\ last.raised = "")
  => \E r \in Refs :
       /\ last.result = last.before[r].reference
       /\ batches[r].allocations # last.before[r].allocations
       /\ \A o \in Refs \ {r} : batches[o].allocations = last.before[o].allocations

\* C6 (amended): every successful allocate makes the allocation set of the
\* batch whose reference is returned the old set plus the line and leaves every
\* other batch unchanged: exactly one set changes when the line was not yet in
\* the returned batch's set, and none changes when it was.
C6_OnlySelectedChanged ==
  (last.op = "allocate" /\ last.raised = "")
  => \E r \in Cands :
       /\ last.result = last.before[r].reference
       /\ batches[r].allocations = last.before[r].allocations \cup {last.line}
       /\ (batches[r].allocations # last.before[r].allocations
            <=> last.line \notin last.before[r].allocations)
       /\ \A o \in Refs \ {r} : batches[o].allocations = last.before[o].allocations

\* The line is allocated again to the batch that already holds it while another
\* batch in the list could take it too: no allocation set changes.
C6_Witness ==
  /\ last.op = "allocate"
  /\ last.raised = ""
  /\ \E r \in Cands, o \in Cands :
       /\ o # r
       /\ last.result = last.before[r].reference
       /\ last.line \in last.before[r].allocations
       /\ can_allocate(last.before[o], last.line)
       /\ batches = last.before

\* C7: can_allocate(line) is true iff line.sku is the batch's sku and
\* line.qty <= available_quantity, and the call changes no state.
C7_CanAllocateIff ==
  last.op = "can_allocate" =>
    /\ last.truth <=>
         ( /\ last.line.sku = last.before[last.target].sku
           /\ last.line.qty <= last.before[last.target].purchased_quantity
                                 - SumQty(last.before[last.target].allocations) )
    /\ batches = last.before

\* The line asks for exactly what is left of a partly allocated batch.
C7_Witness ==
  /\ last.op = "can_allocate"
  /\ last.truth
  /\ batches[last.target].allocations # {}
  /\ last.line \notin batches[last.target].allocations
  /\ last.line.qty = available_quantity(batches[last.target])

\* C8: Batch.allocate(line) never raises; if can_allocate(line) held before the
\* call the allocation set becomes the old set plus the line (available_quantity
\* drops by line.qty when the line was not in the set), otherwise the allocation
\* set and available_quantity are unchanged.
C8_BatchAllocateEffect ==
  last.op = "Batch.allocate" =>
    LET old == last.before[last.target]
        new == batches[last.target]
        could == /\ old.sku = last.line.sku
                 /\ old.purchased_quantity - SumQty(old.allocations) >= last.line.qty
    IN /\ last.raised = ""
       /\ could => /\ new.allocations = old.allocations \cup {last.line}
                   /\ last.line \notin old.allocations
                      => available_quantity(new) = available_quantity(old) - last.line.qty
       /\ ~could => /\ new.allocations = old.allocations
                    /\ available_quantity(new) = available_quantity(old)

\* A refused call: the batch has the line's SKU and holds a line already, and
\* what is left is less than the line asks for.
C8_Witness ==
  /\ last.op = "Batch.allocate"
  /\ last.before[last.target].sku = last.line.sku
  /\ last.before[last.target].allocations # {}
  /\ available_quantity(last.before[last.target]) < last.line.qty
  /\ available_quantity(last.before[last.target]) > 0
  /\ batches = last.before

\* C9: Batch.allocate is idempotent: after Batch.allocate(line), calling
\* Batch.allocate(line) again leaves the allocation set and available_quantity
\* as the first call left them.
C9_BatchAllocateIdempotent ==
  last.op = "Batch.allocate" =>
    LET once == batches[last.target]
        twice == Batch_allocate(once, last.line)
    IN /\ twice.allocations = once.allocations
       /\ available_quantity(twice) = available_quantity(once)

\* The second of two calls in a row with the same line, on a batch that still
\* has room for the line's quantity: the state is what the first call left.
C9_Witness ==
  /\ last.op = "Batch.allocate"
  /\ last.line \in last.before[last.target].allocations
  /\ can_allocate(last.before[last.target], last.line)
  /\ batches = last.before
  /\ available_quantity(batches[last.target])
       = batches[last.target].purchased_quantity - last.line.qty

\* C10: Batch.deallocate(line) never raises; if the line is in the allocation
\* set it removes that line and nothing else, and if it is not, the allocation
\* set and available_quantity are unchanged.
C10_BatchDeallocateEffect ==
  last.op = "Batch.deallocate" =>
    LET old == last.before[last.target]
        new == batches[last.target]
    IN /\ last.raised = ""
       /\ last.line \in old.allocations
          => /\ new.allocations = old.allocations \ {last.line}
             /\ available_quantity(new) = available_quantity(old) + last.line.qty
       /\ last.line \notin old.allocations
          => /\ new.allocations = old.allocations
             /\ available_quantity(new) = available_quantity(old)
       /\ \A o \in Refs \ {last.target} : batches[o] = last.before[o]

\* One of two allocated lines is deallocated and the other stays.
C10_Witness ==
  /\ last.op = "Batch.deallocate"
  /\ Cardinality(last.before[last.target].allocations) = 2
  /\ last.line \in last.before[last.target].allocations
  /\ Cardinality(batches[last.target].allocations) = 1
  /\ last.line \notin batches[last.target].allocations

\* C16: after any sequence of allocate(line, batches) calls over a fixed set of
\* batches, repeated calls with the same line included, every OrderLine is in
\* the allocation set of at most one batch.
C16_LineInAtMostOneBatch ==
  \A line \in OrderLine :
    Cardinality({r \in Refs : line \in batches[r].allocations}) <= 1

\* C20: for lines of any integer qty, zero and negative included, every batch
\* has allocated_quantity, and so available_quantity, within
\* 0..purchased_quantity after any sequence of Batch.allocate and
\* Batch.deallocate calls.
C20_AllocatedWithinPurchased ==
  \A r \in Refs :
    /\ SumQty(batches[r].allocations) >= 0
    /\ SumQty(batches[r].allocations) <= batches[r].purchased_quantity

\* C17: Batch.__gt__ (A > B iff A.eta is not None and either B.eta is None or
\* A.eta > B.eta) is a strict weak order: irreflexive, asymmetric, transitive,
\* with 'neither is greater' transitive; batches with eta None are minimal and
\* equivalent to each other, and dated batches are ordered by ascending eta.
C17_StrictWeakOrder ==
  cmp # <<>> /\ cmp.gt # <<>> =>
    LET G(i, j) == cmp.gt[<<i, j>>]
        eta(i) == cmp.xs[i].eta
        Tied(i, j) == ~G(i, j) /\ ~G(j, i)
    IN \A i \in 1..3, j \in 1..3, k \in 1..3 :
         /\ ~G(i, i)
         /\ G(i, j) => ~G(j, i)
         /\ (G(i, j) /\ G(j, k)) => G(i, k)
         /\ (Tied(i, j) /\ Tied(j, k)) => Tied(i, k)
         /\ eta(i) = None => ~G(i, j)
         /\ (eta(i) = None /\ eta(j) = None) => Tied(i, j)
         /\ (eta(i) # None /\ eta(j) = None) => G(i, j)
         /\ (eta(i) # None /\ eta(j) # None) => (G(i, j) <=> eta(i)[1] > eta(j)[1])

\* Two in-stock batches and a dated one: the dated batch is greater than both
\* and the two in-stock batches are tied.
C17_Witness ==
  /\ cmp # <<>>
  /\ cmp.gt # <<>>
  /\ cmp.xs[1].eta = None
  /\ cmp.xs[2].eta = <<2>>
  /\ cmp.xs[3].eta = None
  /\ cmp.gt[<<2, 1>>]
  /\ cmp.gt[<<2, 3>>]
  /\ ~cmp.gt[<<1, 3>>]
  /\ ~cmp.gt[<<3, 1>>]

\* The batches the service call could see: every batch of the repository in
\* stage 4, the batches of the products of the session in stage 8.
KnownBatches ==
  IF stage = Stage4
  THEN {svc.batches[r] : r \in Refs}
  ELSE UNION {{svc.products[i].batches[k] : k \in DOMAIN svc.products[i].batches} :
                i \in DOMAIN svc.products}

\* The SKU of the call's line is known: a listed batch has it (stage 4), the
\* repository holds a Product for it (stage 8).
KnownSku ==
  IF stage = Stage4
  THEN \E r \in Refs : svc.batches[r].sku = svc.line.sku
  ELSE \E i \in DOMAIN svc.products : svc.products[i].sku = svc.line.sku

DomainCalls == {i \in DOMAIN svc.trace : svc.trace[i] \in {"model.allocate", "product.allocate"}}

Commits == {i \in DOMAIN svc.trace : svc.trace[i] \in {"session.commit", "uow.commit"}}

\* C11: service-layer allocate raises InvalidSku exactly when the line's SKU
\* is not known; then the domain allocation is not invoked and no batch is
\* mutated. A known SKU with no batch of enough quantity ends in OutOfStock.
C11_InvalidSkuIffUnknown ==
  svc.op = "allocate" =>
    /\ (svc.raised = "InvalidSku") <=> ~KnownSku
    /\ svc.raised = "InvalidSku" =>
         /\ DomainCalls = {}
         /\ batches = svc.batches
         /\ products = svc.products
    /\ (KnownSku /\ ~\E b \in KnownBatches : can_allocate(b, svc.line)) =>
         svc.raised = "OutOfStock"

\* A stage-4 call for a SKU no listed batch has, while a batch of another
\* SKU has enough quantity for the line.
C11_Witness ==
  /\ stage = Stage4
  /\ svc.op = "allocate"
  /\ svc.raised = "InvalidSku"
  /\ \E r \in Refs : svc.batches[r].purchased_quantity >= svc.line.qty

\* C12: a service-layer allocate call that returns a batch reference invokes
\* commit exactly once, after the domain allocation returned; a call ending
\* in InvalidSku or OutOfStock never invokes commit.
C12_CommitOnceAfterAllocation ==
  svc.op = "allocate" =>
    /\ svc.raised = "" =>
         /\ svc.result \in Refs
         /\ Cardinality(Commits) = 1
         /\ DomainCalls # {}
         /\ \A c \in Commits, d \in DomainCalls : d < c
    /\ svc.raised \in {"InvalidSku", "OutOfStock"} => Commits = {}
    /\ svc.raised \in {"", "InvalidSku", "OutOfStock"}

\* A stage-4 call that ended in OutOfStock after a call that allocated.
C12_Witness ==
  /\ stage = Stage4
  /\ svc.op = "allocate"
  /\ svc.raised = "OutOfStock"
  /\ \E r \in Refs : svc.batches[r].allocations # {}

\* The Product the stage-8 allocate call got from the repository, by position.
Got == repo_get(svc.line.sku, svc.products)

\* C13: Product.allocate increments version_number on every successful
\* allocation and leaves it unchanged on OutOfStock; no Product's
\* version_number is ever lower after a call than before it.
C13_VersionBumpedOnSuccess ==
  /\ (stage = Stage8 /\ svc.op = "allocate" /\ svc.raised = "") =>
       products[Got].version_number = svc.products[Got].version_number + 1
  /\ (stage = Stage8 /\ svc.op = "allocate" /\ svc.raised = "OutOfStock") =>
       products = svc.products
  /\ (stage = Stage8 /\ svc.op # "init") =>
       \A i \in DOMAIN svc.products :
         products[i].version_number >= svc.products[i].version_number

\* A Product that was allocated to before and whose last allocate call
\* ended in OutOfStock.
C13_Witness ==
  /\ stage = Stage8
  /\ svc.op = "allocate"
  /\ svc.raised = "OutOfStock"
  /\ products[Got].version_number >= 1

\* C15: after any sequence of service-layer add_batch and allocate calls,
\* every Batch in a Product's batches has the Product's sku, and every line
\* allocated to such a batch has that sku too.
C15_BatchesHaveProductSku ==
  \A i \in DOMAIN products : \A k \in DOMAIN products[i].batches :
    /\ products[i].batches[k].sku = products[i].sku
    /\ \A line \in products[i].batches[k].allocations : line.sku = products[i].sku

\* Two Products, each with a batch, after an allocation to the second.
C15_Witness ==
  /\ Len(products) = 2
  /\ svc.op = "allocate"
  /\ svc.raised = ""
  /\ products[1].batches # <<>>
  /\ products[2].batches[1].allocations # {}

\* C14: of two callers that allocate against the same Product snapshot and
\* commit, at most one commit succeeds and the other fails on the version
\* mismatch; no committed state has a batch with available_quantity < 0; the
\* failed caller can retry against a fresh snapshot, and the retry is not
\* failed again: it ends in OutOfStock or its commit finds the version it read.
C14_AtMostOneCommitPerSnapshot ==
  callers # <<>> =>
    /\ \A c \in Callers, d \in Callers :
         (c # d /\ callers[c].pc = "committed" /\ callers[d].pc = "committed") =>
           callers[c].read # callers[d].read
    /\ \A k \in DOMAIN products[1].batches :
         available_quantity(products[1].batches[k]) >= 0
    /\ \A c \in Callers :
         /\ callers[c].pc = "conflict" => ENABLED CallerRetry(c)
         /\ callers[c].retried =>
              /\ callers[c].pc \in {"loaded", "allocated", "committed", "out_of_stock"}
              /\ callers[c].pc = "allocated" =>
                   version_matches(products[1], callers[c].read)

\* Both callers read version 0; one committed, the other was failed, retried
\* and ended in OutOfStock.
C14_Witness ==
  /\ callers # <<>>
  /\ callers["c1"].pc = "committed"
  /\ callers["c1"].read = 0
  /\ callers["c2"].retried
  /\ callers["c2"].pc = "out_of_stock"

\* C18: for a candidate list that mixes SKUs, the batch allocate selects has
\* the line's SKU, and no batch of another SKU has its allocation set changed,
\* also when such a batch ranks earlier and has enough quantity.
C18_OnlyLineSkuSelected ==
  last.op = "allocate" =>
    /\ last.raised = "" =>
         \E r \in Cands :
           /\ last.result = last.before[r].reference
           /\ last.before[r].sku = last.line.sku
    /\ \A o \in Refs :
         last.before[o].sku # last.line.sku =>
           batches[o].allocations = last.before[o].allocations

\* An in-stock batch of another SKU with enough quantity comes first; the
\* dated batch of the line's SKU is selected.
C18_Witness ==
  /\ last.op = "allocate"
  /\ Len(last.cands) = 2
  /\ last.before[last.cands[1]].sku # last.line.sku
  /\ last.before[last.cands[1]].eta = None
  /\ available_quantity(last.before[last.cands[1]]) >= last.line.qty
  /\ last.before[last.cands[2]].eta # None
  /\ last.result = last.before[last.cands[2]].reference
  /\ last.line \in batches[last.cands[2]].allocations

\* The candidates that could take the line before the call.
Eligible == {c \in Cands : can_allocate(last.before[c], last.line)}

\* The position of a candidate in the input list.
Pos(c) == CHOOSE i \in DOMAIN last.cands : last.cands[i] = c

\* C19: when the batches that could take the line are tied in the ordering
\* (all with eta None, or all with the same date), allocate selects the one
\* earliest in the input list; when all etas of the list are distinct, every
\* permutation of the list gives the same result.
C19_TiesByInputOrder ==
  last.op = "allocate" =>
    /\ ( /\ Cardinality(Eligible) >= 2
         /\ \A c \in Eligible, d \in Eligible : last.before[c].eta = last.before[d].eta )
       => \E r \in Eligible :
            /\ last.result = last.before[r].reference
            /\ \A e \in Eligible : Pos(r) <= Pos(e)
    /\ (\A c \in Cands, d \in Cands : c # d => last.before[c].eta # last.before[d].eta)
       => \A perm \in {l \in CandidateLists :
                         Len(l) = Len(last.cands) /\ {l[i] : i \in DOMAIN l} = Cands} :
            allocate(last.line, perm, last.before) =
              [batches |-> batches, raised |-> last.raised, result |-> last.result]

\* Two batches with the same date could both take the line; the list names
\* b2 first and b2 is selected.
C19_Witness ==
  /\ last.op = "allocate"
  /\ last.cands = <<"b2", "b1">>
  /\ last.before["b1"].eta = last.before["b2"].eta
  /\ last.before["b1"].eta # None
  /\ can_allocate(last.before["b1"], last.line)
  /\ can_allocate(last.before["b2"], last.line)
  /\ last.result = "b2"
  /\ last.line \in batches["b2"].allocations

\* C21: Batch.allocate(line) returns a truthy value when the batch has the
\* line's SKU and available quantity >= line.qty, and returns False when the
\* available quantity is smaller than line.qty.
C21_AllocateReturnsTruth ==
  last.op = "Batch.allocate" =>
    /\ can_allocate(last.before[last.target], last.line) =>
         last.result \notin {"None", "False"}
    /\ available_quantity(last.before[last.target]) < last.line.qty =>
         last.result = "False"

\* C22: for a line that is not in the batch's allocation set,
\* Batch.allocate(line) followed by Batch.deallocate(line) restores the
\* allocation set and available_quantity, whether or not the allocate took
\* effect.
C22_AllocateDeallocateRoundTrip ==
  ( /\ last.op = "Batch.deallocate"
    /\ svc.op = "Batch.allocate"
    /\ svc.target = last.target
    /\ svc.line = last.line
    /\ last.line \notin svc.before[last.target].allocations )
  => /\ batches[last.target].allocations = svc.before[last.target].allocations
     /\ available_quantity(batches[last.target]) =
          available_quantity(svc.before[last.target])
     /\ \A o \in Refs \ {last.target} : batches[o] = svc.before[o]

\* The allocate took effect on a batch that already held another line, and the
\* deallocate took the line out again.
C22_Witness ==
  /\ last.op = "Batch.deallocate"
  /\ svc.op = "Batch.allocate"
  /\ svc.target = last.target
  /\ svc.line = last.line
  /\ svc.before[last.target].allocations # {}
  /\ last.line \notin svc.before[last.target].allocations
  /\ last.line \in last.before[last.target].allocations
  /\ last.line \notin batches[last.target].allocations

\* C23: no operation of the kernel changes a batch's reference, sku, eta or
\* purchased_quantity; only allocation sets change, and allocated_quantity +
\* available_quantity is the purchased_quantity in every reachable state.
C23_OnlyAllocationsChange ==
  \A r \in Refs :
    /\ batches[r].reference = last.before[r].reference
    /\ batches[r].sku = last.before[r].sku
    /\ batches[r].eta = last.before[r].eta
    /\ batches[r].purchased_quantity = last.before[r].purchased_quantity
    /\ allocated_quantity(batches[r]) + available_quantity(batches[r]) =
         last.before[r].purchased_quantity

\* A deallocate that took a line out of a batch holding two.
C23_Witness ==
  /\ last.op = "Batch.deallocate"
  /\ Cardinality(last.before[last.target].allocations) = 2
  /\ batches[last.target].allocations # last.before[last.target].allocations

\* C24: after any sequence of add(product) and get(sku) calls, seen holds
\* exactly the products passed to add or returned by get; a get that finds no
\* product adds nothing to seen, and no call removes a product from seen.
C24_SeenIsAddedOrReturned ==
  svc.op \in {"repository.add", "repository.get"} =>
    /\ seen = svc.added \cup svc.returned
    /\ (svc.op = "repository.get" /\ ~svc.found) => seen = svc.seen
    /\ svc.seen \subseteq seen

\* A get that found nothing, after one product was added and another, held by
\* the session from the start, was returned by get.
C24_Witness ==
  /\ svc.op = "repository.get"
  /\ ~svc.found
  /\ svc.added # {}
  /\ svc.returned \ svc.added # {}
  /\ svc.sku \notin seen

\* The workers that dequeued the number n.
CheckedBy(n) == {w \in DOMAIN prime.got : Count(prime.got[w], n) > 0}

\* C25: each number put on the job queue is checked by exactly one worker and
\* report returns checked equal to the number of jobs: no result is lost or
\* counted twice, and report does not return before every result is read.
C25_EachJobCheckedOnce ==
  prime # <<>> =>
    /\ \A i \in 1..NumJobs :
         /\ Cardinality(CheckedBy(NUMBERS[i])) <= 1
         /\ \A w \in DOMAIN prime.got : Count(prime.got[w], NUMBERS[i]) <= 1
         /\ Count(prime.read, NUMBERS[i]) <= 1
    /\ prime.checked = Len(prime.read)
    /\ prime.main = "returned" =>
         /\ prime.checked = NumJobs
         /\ \A i \in 1..NumJobs :
              /\ Cardinality(CheckedBy(NUMBERS[i])) = 1
              /\ Count(prime.read, NUMBERS[i]) = 1

\* Two workers, each checked a number, and report returned after reading the
\* results in the order opposite to the job queue's.
C25_Witness ==
  /\ prime # <<>>
  /\ prime.procs = 2
  /\ prime.main = "returned"
  /\ CheckedBy(NUMBERS[1]) = {1}
  /\ CheckedBy(NUMBERS[2]) = {2}
  /\ prime.read = <<NUMBERS[2], NUMBERS[1]>>

\* Every worker has dequeued one 0, put its end marker and ended, and report
\* has seen procs end markers and returned.
PrimeFinished ==
  /\ prime # <<>>
  /\ prime.main = "returned"
  /\ prime.procs_done = prime.procs
  /\ \A w \in DOMAIN prime.worker :
       /\ prime.worker[w].pc = "done"
       /\ Count(prime.got[w], 0) = 1

\* C26: under fair scheduling every worker eventually dequeues exactly one 0,
\* puts its end marker and terminates, and report eventually sees procs end
\* markers and returns; no worker waits forever on an empty job queue.
C26_WorkersTerminate == <>[]PrimeFinished

\* Both workers ended and report returned; the second worker dequeued only
\* its 0.
C26_Witness ==
  /\ PrimeFinished
  /\ prime.procs = 2
  /\ prime.got[2] = <<0>>

\* C28: applying the actions determine_actions yields, in the order yielded,
\* leaves the destination holding exactly the source's contents under the
\* source's file names.
C28_DestinationMirrorsSource ==
  (sync # <<>> /\ sync.pc = "done") =>
    /\ ~sync.raised
    /\ sync.dest = Folder(sync.source_hashes)

C27_SpinnerNeverRuns ==
  (aio # <<>> /\ aio.variant = "blocking") =>
    /\ aio.iterations = 0
    /\ aio.spin \in {"unstarted", "cancelled"}
    /\ aio.running = "spin" => (aio.must_cancel /\ aio.result = 42)
    /\ aio.spin = "cancelled" => aio.cancelled_at = 0

\* The blocking supervisor returned 42 after is_prime took four units, and
\* the spinner task ended cancelled without an iteration.
C27_Witness ==
  /\ aio # <<>>
  /\ aio.variant = "blocking"
  /\ aio.supervisor = "done"
  /\ aio.result = 42
  /\ aio.clock = 4
  /\ aio.spin = "cancelled"
  /\ aio.iterations = 0

====
